---- MODULE Spec2Model ----
(***************************************************************************)
(* RAKSHAK-AI: the Run Controller (simulation_controller.py), the Alert    *)
(* Lifecycle Manager (services/alert_service.py), the Risk Classification  *)
(* Engine (services/intent_service.py) and the /classify route             *)
(* (routers/intent.py) as state machines.                                  *)
(*                                                                         *)
(* Time is the wall clock datetime.utcnow() in whole seconds.  Optional    *)
(* values are sequences: None is << >> and a present value v is << v >>.   *)
(* Risk scores are kept in hundredths (87.75 is 8775), the resolution the  *)
(* classifier rounds to.                                                   *)
(***************************************************************************)
EXTENDS Integers, Sequences, FiniteSets, TLC

VARIABLES
    now,                \* datetime.utcnow(), seconds
    state,              \* SimulationController._state
    lock,               \* SimulationController._lock: the task holding it
    started_at,         \* SimulationController._started_at
    last_run_at,        \* SimulationController._last_run_at
    run_count,          \* SimulationController._run_count
    error_message,      \* SimulationController._error_message
    pc,                 \* where each request task stands in run_single / reset
    exc,                \* the exception a task's cycle raised (local e)
    result,             \* what each task's last call returned
    calls,              \* calls issued so far
    alerts,             \* AlertService._alerts, in insertion order
    zone_last_alert,    \* AlertService._zone_last_alert
    zone_alert_counts,  \* AlertService._zone_alert_counts
    ret,                \* the last service or utility call and what it returned
    request,            \* the request classify_intent is serving, if any
    response,           \* what classify returned to classify_intent last
    broadcasts,         \* the envelopes handed to manager.broadcast, in order
    active_connections, \* ConnectionManager.active_connections
    accepted,           \* the number of websockets accepted so far
    loop,               \* per handler: the locals of broadcast() it is in
    received,           \* per handler: who got the message of its broadcast
    audit_entries       \* AuditService._entries, by event type

ctlVars == <<state, lock, started_at, last_run_at, run_count, error_message,
             pc, exc, result, calls>>
alertVars == <<alerts, zone_last_alert, zone_alert_counts, ret>>
pushVars == <<active_connections, accepted, loop, received>>
intentVars == <<request, response, broadcasts, active_connections, accepted,
                loop, received, audit_entries>>
vars == <<now, state, lock, started_at, last_run_at, run_count, error_message,
          pc, exc, result, calls, alerts, zone_last_alert, zone_alert_counts, ret,
          request, response, broadcasts, active_connections, accepted, loop,
          received, audit_entries>>

None == << >>
Some(v) == << v >>

----------------------------------------------------------------------------
(* Bounds of the model                                                     *)

MaxCalls == 4           \* run_single / reset calls issued in one behaviour
CtlMaxTime == 2         \* horizon of the controller's clock

MaxAlerts == 2          \* alerts registered in one behaviour of Spec
MaxRequests == 2        \* /classify requests served in one behaviour
FloodMaxAlerts == 12    \* alerts registered in one behaviour of FloodSpec
MaxClients == 3         \* websockets accepted in one behaviour of PushSpec
MaxAudit == 4           \* records in the audit log

Tasks == {"t1", "t2"}           \* concurrent request handlers
Zones == {"Z1", "Z2"}
\* The instants at which the alert service is observed: each escalation
\* timeout and the cooldown, exactly and one second later.
TimePoints == {0, 60, 300, 301, 900, 1800, 1801}
\* The instants of FloodSpec: one cooldown apart, past the hour.
FloodTimePoints == {0, 300, 600, 900, 1200, 1500, 1800, 2100, 2400, 2700,
                    3000, 3300, 3599, 3600, 3900}
FloodZones == {"Z1"}
\* The evidence of the classification requests examined: component scores
\* (hundredths; below 0 and above 100 included), detections as <<class,
\* confidence>> lists of up to two, the sensor correlation flags, the hour.
ScoreInputs == {-500, 5400, 8000, 15000}
SensorScoreInputs == {-500, 5600, 7000, 15000}
DetectionClasses == {"missing_fish_plate", "track_displacement", "person_on_track"}
DetectionConfidences == {84, 85, 95, 150}
SabotageLikelihoods == {69, 70, 100}
Hours == 0..23
Detections ==
    [class_label : DetectionClasses, confidence : DetectionConfidences]
DetectionLists ==
    {<< >>} \cup {<<d>> : d \in Detections}
            \cup {<<d, e>> : d \in Detections, e \in Detections}
VisionAnalyses ==
    {<< >>} \cup {<<a>> : a \in [vision_risk_score : ScoreInputs,
                                  detections : DetectionLists]}
SensorAnalyses ==
    {<< >>} \cup {<<a>> : a \in [sensor_risk_score : SensorScoreInputs,
                                  is_coordinated : BOOLEAN,
                                  sabotage_likelihood : SabotageLikelihoods]}
Requests ==
    [zone_id : FloodZones, hour : Hours,
     vision : VisionAnalyses, sensor : SensorAnalyses]

\* The requests of PipelineSpec: no evidence (SAFE), scores 54 and 56 at
\* noon (SUSPICIOUS, 49.5), a missing fish plate seen at 0.95 (override),
\* and a detection whose confidence the response model rejects.
PipelineRequests ==
    { [zone_id |-> "Z1", hour |-> 12, vision |-> << >>, sensor |-> << >>],
      [zone_id |-> "Z1", hour |-> 12,
       vision |-> <<[vision_risk_score |-> 5400, detections |-> << >>]>>,
       sensor |-> <<[sensor_risk_score |-> 5600, is_coordinated |-> FALSE,
                     sabotage_likelihood |-> 69]>>],
      [zone_id |-> "Z1", hour |-> 12,
       vision |-> <<[vision_risk_score |-> 8000, detections |->
                        <<[class_label |-> "missing_fish_plate", confidence |-> 95]>>]>>,
       sensor |-> << >>],
      [zone_id |-> "Z1", hour |-> 12,
       vision |-> <<[vision_risk_score |-> 8000, detections |->
                        <<[class_label |-> "track_displacement", confidence |-> 150]>>]>>,
       sensor |-> << >>] }
\* Classifier verdicts handed to the alert service: <<classification, score>>.
Verdicts == {<<"SAFE", 1000>>, <<"SUSPICIOUS", 3000>>, <<"SUSPICIOUS", 5500>>,
             <<"CONFIRMED_TAMPERING", 7500>>, <<"CONFIRMED_TAMPERING", 9000>>}
FloodVerdicts == {<<"SAFE", 1000>>, <<"SUSPICIOUS", 5500>>}
Msgs == {"", "boom"}            \* str(e) of the exception a cycle raises
Classifications == {"SAFE", "SUSPICIOUS", "CONFIRMED_TAMPERING"}

----------------------------------------------------------------------------
(* Push sink (websockets.py)                                               *)

\* The envelope with the type ALERT_NEW whatever the classification.
EnvelopeAlertOnly(cls) == [type |-> "ALERT_NEW", classification |-> cls]

\* The message classify hands to manager.broadcast: its type and the
\* classification of the payload (the rest of the payload is left out).
Envelope(cls) ==
    [type |-> IF cls # "SAFE" THEN "ALERT_NEW" ELSE "ANALYSIS_UPDATE",
     classification |-> cls]

----------------------------------------------------------------------------
(* Run Controller                                                          *)

NoTask == "none"

NoResult ==
    [op |-> "none", success |-> FALSE, raised |-> FALSE, error |-> None,
     state |-> "none", note |-> "none"]

\* The payload of a successful run_single.
SuccessPayload(cls) ==
    [op |-> "run_single", success |-> TRUE, raised |-> FALSE, error |-> None,
     state |-> "STOPPED", note |-> cls]

\* The payload of a failed run_single.
FailurePayload(msg) ==
    [op |-> "run_single", success |-> FALSE, raised |-> FALSE, error |-> Some(msg),
     state |-> "ERROR", note |-> "failed"]

\* A BaseException left run_single: the caller gets no payload.
Propagated(name) ==
    [op |-> "run_single", success |-> FALSE, raised |-> TRUE, error |-> None,
     state |-> "none", note |-> name]

\* get_status() as returned by reset(), with the branch reset() logged.
StatusPayload(st, err, branch) ==
    [op |-> "reset", success |-> TRUE, raised |-> FALSE, error |-> err,
     state |-> st, note |-> branch]

\* A task is between its transition to RUNNING and its transition to
\* STOPPED or ERROR.
InFlight(t) == pc[t] \in {"cycle", "ok_lock", "ok_commit", "err_lock", "err_commit"}

\* A request handler calls run_single.
RunCall(t) ==
    /\ pc[t] = "idle"
    /\ calls < MaxCalls
    /\ calls' = calls + 1
    /\ pc' = [pc EXCEPT ![t] = "run_lock"]
    /\ result' = [result EXCEPT ![t] = NoResult]
    /\ exc' = [exc EXCEPT ![t] = None]
    /\ UNCHANGED <<now, state, lock, started_at, last_run_at, run_count, error_message>>
    /\ UNCHANGED alertVars
    /\ UNCHANGED intentVars

\* async with self._lock (any of the three blocks of run_single, or reset's).
Acquire(t, from, to) ==
    /\ pc[t] = from
    /\ lock = NoTask
    /\ lock' = t
    /\ pc' = [pc EXCEPT ![t] = to]
    /\ UNCHANGED <<now, state, started_at, last_run_at, run_count, error_message,
                   exc, result, calls>>
    /\ UNCHANGED alertVars
    /\ UNCHANGED intentVars

RunAcquire(t) == Acquire(t, "run_lock", "run_begin")

\* The first locked block: state RUNNING, start time, error cleared.
RunBegin(t) ==
    /\ pc[t] = "run_begin"
    /\ lock = t
    /\ state' = "RUNNING"
    /\ started_at' = Some(now)
    /\ error_message' = None
    /\ lock' = NoTask
    /\ pc' = [pc EXCEPT ![t] = "cycle"]
    /\ UNCHANGED <<now, last_run_at, run_count, exc, result, calls>>
    /\ UNCHANGED alertVars
    /\ UNCHANGED intentVars

\* await intent_service.classify(request) returns a response; classify has
\* handed its envelope to manager.broadcast before it returns.
CycleReturns(t, cls) ==
    /\ pc[t] = "cycle"
    /\ pc' = [pc EXCEPT ![t] = "ok_lock"]
    /\ result' = [result EXCEPT ![t] = SuccessPayload(cls)]
    /\ broadcasts' = Append(broadcasts, Envelope(cls))
    /\ UNCHANGED <<now, state, lock, started_at, last_run_at, run_count,
                   error_message, exc, calls>>
    /\ UNCHANGED alertVars
    /\ UNCHANGED <<request, response>>
    /\ UNCHANGED pushVars
    /\ UNCHANGED audit_entries

\* The cycle raises an Exception whose text is msg.
CycleRaises(t, msg) ==
    /\ pc[t] = "cycle"
    /\ pc' = [pc EXCEPT ![t] = "err_lock"]
    /\ exc' = [exc EXCEPT ![t] = Some(msg)]
    /\ UNCHANGED <<now, state, lock, started_at, last_run_at, run_count,
                   error_message, result, calls>>
    /\ UNCHANGED alertVars
    /\ UNCHANGED intentVars

\* The task is cancelled while it awaits classify: CancelledError is a
\* BaseException, which `except Exception` does not catch.
CycleCancelled(t) ==
    /\ pc[t] = "cycle"
    /\ pc' = [pc EXCEPT ![t] = "idle"]
    /\ result' = [result EXCEPT ![t] = Propagated("CancelledError")]
    /\ UNCHANGED <<now, state, lock, started_at, last_run_at, run_count,
                   error_message, exc, calls>>
    /\ UNCHANGED alertVars
    /\ UNCHANGED intentVars

OkAcquire(t) == Acquire(t, "ok_lock", "ok_commit")

\* The success block without the increment of the run counter.
OkCommitNoCount(t) ==
    /\ pc[t] = "ok_commit"
    /\ lock = t
    /\ state' = "STOPPED"
    /\ last_run_at' = Some(now)
    /\ lock' = NoTask
    /\ pc' = [pc EXCEPT ![t] = "idle"]
    /\ UNCHANGED <<now, started_at, run_count, error_message, exc, result, calls>>
    /\ UNCHANGED alertVars
    /\ UNCHANGED intentVars

\* The success block: STOPPED, last-run time, run counter; then the return.
OkCommit(t) ==
    /\ pc[t] = "ok_commit"
    /\ lock = t
    /\ state' = "STOPPED"
    /\ last_run_at' = Some(now)
    /\ run_count' = run_count + 1
    /\ lock' = NoTask
    /\ pc' = [pc EXCEPT ![t] = "idle"]
    /\ UNCHANGED <<now, started_at, error_message, exc, result, calls>>
    /\ UNCHANGED alertVars
    /\ UNCHANGED intentVars

ErrAcquire(t) == Acquire(t, "err_lock", "err_commit")

\* ErrCommit with the handler re-raising after it recorded the error.
ErrCommitReraise(t) ==
    /\ pc[t] = "err_commit"
    /\ lock = t
    /\ state' = "ERROR"
    /\ error_message' = exc[t]
    /\ lock' = NoTask
    /\ pc' = [pc EXCEPT ![t] = "idle"]
    /\ result' = [result EXCEPT ![t] = Propagated("Exception")]
    /\ UNCHANGED <<now, started_at, last_run_at, run_count, exc, calls>>
    /\ UNCHANGED alertVars
    /\ UNCHANGED intentVars

\* The except block: ERROR, error_msg = str(e); then the failure payload.
ErrCommit(t) ==
    /\ pc[t] = "err_commit"
    /\ lock = t
    /\ state' = "ERROR"
    /\ error_message' = exc[t]
    /\ lock' = NoTask
    /\ pc' = [pc EXCEPT ![t] = "idle"]
    /\ result' = [result EXCEPT ![t] = FailurePayload(exc[t][1])]
    /\ UNCHANGED <<now, started_at, last_run_at, run_count, exc, calls>>
    /\ UNCHANGED alertVars
    /\ UNCHANGED intentVars

\* A request handler calls reset.
ResetCall(t) ==
    /\ pc[t] = "idle"
    /\ calls < MaxCalls
    /\ calls' = calls + 1
    /\ pc' = [pc EXCEPT ![t] = "reset_lock"]
    /\ result' = [result EXCEPT ![t] = NoResult]
    /\ exc' = [exc EXCEPT ![t] = None]
    /\ UNCHANGED <<now, state, lock, started_at, last_run_at, run_count, error_message>>
    /\ UNCHANGED alertVars
    /\ UNCHANGED intentVars

ResetAcquire(t) == Acquire(t, "reset_lock", "reset_body")

\* ResetState without the test of the current state.
ResetStateAlways(st) == "STOPPED"

\* The state reset() leaves: ERROR becomes STOPPED, anything else stays.
ResetState(st) == IF st = "ERROR" THEN "STOPPED" ELSE st

\* The branch reset() takes, by what it logs.
ResetBranch(st) ==
    IF st = "ERROR" THEN "reset from ERROR"
    ELSE IF st = "RUNNING" THEN "cannot reset while RUNNING"
    ELSE "already STOPPED"

\* reset's locked block and its return of get_status().
ResetBody(t) ==
    /\ pc[t] = "reset_body"
    /\ lock = t
    /\ state' = ResetState(state)
    /\ error_message' = IF state = "ERROR" THEN None ELSE error_message
    /\ lock' = NoTask
    /\ pc' = [pc EXCEPT ![t] = "idle"]
    /\ result' = [result EXCEPT ![t] =
                    StatusPayload(state', error_message', ResetBranch(state))]
    /\ UNCHANGED <<now, started_at, last_run_at, run_count, exc, calls>>
    /\ UNCHANGED alertVars
    /\ UNCHANGED intentVars

\* The clock moves while the controller runs.
TickCtl ==
    /\ now < CtlMaxTime
    /\ now' = now + 1
    /\ UNCHANGED ctlVars
    /\ UNCHANGED alertVars
    /\ UNCHANGED intentVars

----------------------------------------------------------------------------
(* Configuration (config.py)                                               *)

ALERT_COOLDOWN_SECONDS == 300
MAX_ALERTS_PER_HOUR == 10
HourSeconds == 3600

\* The largest risk score, in hundredths (safe_risk_score: max_score = 100.0).
MaxRiskScore == 10000

\* Every risk score of two decimals a classification can carry.
RiskScores == 0..MaxRiskScore

\* SEVERITY_THRESHOLDS in the dict's order, bounds in hundredths.
SEVERITY_THRESHOLDS ==
    << [severity |-> "LOW",      min_score |-> 2500, max_score |-> 4900],
       [severity |-> "MEDIUM",   min_score |-> 5000, max_score |-> 6900],
       [severity |-> "HIGH",     min_score |-> 7000, max_score |-> 8400],
       [severity |-> "CRITICAL", min_score |-> 8500, max_score |-> 10000] >>

ESCALATION_TIMEOUT ==
    [sev \in {"LOW", "MEDIUM", "HIGH", "CRITICAL"} |->
        CASE sev = "LOW" -> 1800
          [] sev = "MEDIUM" -> 900
          [] sev = "HIGH" -> 300
          [] sev = "CRITICAL" -> 60]

\* EscalationLevel (models/alert.py)
INITIAL == 1
SUPERVISOR == 2
MANAGER == 3
EMERGENCY == 4

----------------------------------------------------------------------------
(* Alert Lifecycle Manager                                                 *)

\* _determine_severity: the first configured range holding the score, else
\* LOW below 25 and CRITICAL otherwise.
RECURSIVE FirstRange(_, _)
FirstRange(i, risk_score) ==
    IF i > Len(SEVERITY_THRESHOLDS) THEN
        IF risk_score < 2500 THEN "LOW" ELSE "CRITICAL"
    ELSE IF /\ SEVERITY_THRESHOLDS[i].min_score <= risk_score
            /\ risk_score <= SEVERITY_THRESHOLDS[i].max_score
         THEN SEVERITY_THRESHOLDS[i].severity
         ELSE FirstRange(i + 1, risk_score)

DetermineSeverity(risk_score) == FirstRange(1, risk_score)

\* _check_cooldown with the elapsed time compared against minutes.
CheckCooldownMinutes(zone_id) ==
    \/ zone_last_alert[zone_id] = None
    \/ now - zone_last_alert[zone_id][1] >= ALERT_COOLDOWN_SECONDS \div 60

\* _check_cooldown: true when the zone may alert again.
CheckCooldown(zone_id) ==
    \/ zone_last_alert[zone_id] = None
    \/ now - zone_last_alert[zone_id][1] >= ALERT_COOLDOWN_SECONDS

\* The list comprehension of _check_flooding: entries newer than an hour.
RECURSIVE Purge(_, _)
Purge(ts, hour_ago) ==
    IF ts = << >> THEN << >>
    ELSE IF Head(ts) > hour_ago
         THEN <<Head(ts)>> \o Purge(Tail(ts), hour_ago)
         ELSE Purge(Tail(ts), hour_ago)

\* The comparison of _check_flooding, off by one.
UnderLimitInclusive(kept) == Len(kept) <= MAX_ALERTS_PER_HOUR

\* The comparison of _check_flooding on the purged list.
UnderLimit(kept) == Len(kept) < MAX_ALERTS_PER_HOUR

\* Alert(...) as create_alert_from_classification builds it.  The fields
\* that no branch of the service reads (title, description, reasons, who
\* acknowledged or resolved and when, notes, updated_at) are left out.
NewAlert(zone_id, classification, risk_score) ==
    [zone_id |-> zone_id,
     classification |-> classification,
     severity |-> DetermineSeverity(risk_score),
     status |-> "active",
     risk_score |-> risk_score,
     created_at |-> now,
     acknowledged |-> FALSE,
     escalation_level |-> INITIAL,
     escalated_at |-> None]

NoRet == [op |-> "none", zone |-> "none", cls |-> "none", id |-> 0, alert |-> 0]

Ret(op, zone_id, cls, id, alert) ==
    [op |-> op, zone |-> zone_id, cls |-> cls, id |-> id, alert |-> alert]

\* The SAFE test of create_alert_from_classification, dropped.
IsSafeNever(classification) == FALSE

\* The SAFE test of create_alert_from_classification.
IsSafe(classification) == classification = "SAFE"

\* create_alert_from_classification stamping the zone on a suppressed attempt.
CreateAlertEffectStamping(zone_id, classification, risk_score) ==
    LET kept == Purge(zone_alert_counts[zone_id], now - HourSeconds) IN
    /\ IF IsSafe(classification) \/ ~CheckCooldown(zone_id) THEN
            /\ zone_last_alert' = [zone_last_alert EXCEPT ![zone_id] = Some(now)]
            /\ UNCHANGED <<alerts, zone_alert_counts>>
            /\ ret' = Ret("create", zone_id, classification, 0, 0)
       ELSE IF ~UnderLimit(kept) THEN
            /\ zone_alert_counts' = [zone_alert_counts EXCEPT ![zone_id] = kept]
            /\ UNCHANGED <<alerts, zone_last_alert>>
            /\ ret' = Ret("create", zone_id, classification, 0, 0)
       ELSE
            /\ alerts' = Append(alerts, NewAlert(zone_id, classification, risk_score))
            /\ zone_last_alert' = [zone_last_alert EXCEPT ![zone_id] = Some(now)]
            /\ zone_alert_counts' =
                    [zone_alert_counts EXCEPT ![zone_id] = Append(kept, now)]
            /\ ret' = Ret("create", zone_id, classification, 0, Len(alerts) + 1)

\* create_alert_from_classification(zone_id, _, classification, risk_score, _).
\* ret.alert is the index of the alert returned, 0 for None.
CreateAlertEffect(zone_id, classification, risk_score) ==
    LET kept == Purge(zone_alert_counts[zone_id], now - HourSeconds) IN
    /\ IF IsSafe(classification) \/ ~CheckCooldown(zone_id) THEN
            /\ UNCHANGED <<alerts, zone_last_alert, zone_alert_counts>>
            /\ ret' = Ret("create", zone_id, classification, 0, 0)
       ELSE IF ~UnderLimit(kept) THEN
            /\ zone_alert_counts' = [zone_alert_counts EXCEPT ![zone_id] = kept]
            /\ UNCHANGED <<alerts, zone_last_alert>>
            /\ ret' = Ret("create", zone_id, classification, 0, 0)
       ELSE
            /\ alerts' = Append(alerts, NewAlert(zone_id, classification, risk_score))
            /\ zone_last_alert' = [zone_last_alert EXCEPT ![zone_id] = Some(now)]
            /\ zone_alert_counts' =
                    [zone_alert_counts EXCEPT ![zone_id] = Append(kept, now)]
            /\ ret' = Ret("create", zone_id, classification, 0, Len(alerts) + 1)

\* A call of create_alert_from_classification on its own.
CreateAlert(zone_id, classification, risk_score) ==
    /\ CreateAlertEffect(zone_id, classification, risk_score)
    /\ UNCHANGED now
    /\ UNCHANGED ctlVars
    /\ UNCHANGED intentVars

\* acknowledge_alert falling back to the newest alert when the id is unknown.
AcknowledgeAlertNewest(alert_id, mark_as_false_positive) ==
    LET found == IF alert_id \in DOMAIN alerts THEN alert_id ELSE Len(alerts) IN
    /\ IF found = 0 THEN
            /\ UNCHANGED alerts
            /\ ret' = Ret("acknowledge", "none", "none", alert_id, 0)
       ELSE
            /\ alerts' = [alerts EXCEPT
                    ![found].acknowledged = TRUE,
                    ![found].status =
                        IF mark_as_false_positive THEN "false_positive"
                        ELSE "acknowledged"]
            /\ ret' = Ret("acknowledge", "none", "none", alert_id, found)
    /\ UNCHANGED <<now, zone_last_alert, zone_alert_counts>>
    /\ UNCHANGED ctlVars
    /\ UNCHANGED intentVars

\* acknowledge_alert(request): request.alert_id, request.mark_as_false_positive.
AcknowledgeAlert(alert_id, mark_as_false_positive) ==
    /\ IF alert_id \notin DOMAIN alerts THEN
            /\ UNCHANGED alerts
            /\ ret' = Ret("acknowledge", "none", "none", alert_id, 0)
       ELSE
            /\ alerts' = [alerts EXCEPT
                    ![alert_id].acknowledged = TRUE,
                    ![alert_id].status =
                        IF mark_as_false_positive THEN "false_positive"
                        ELSE "acknowledged"]
            /\ ret' = Ret("acknowledge", "none", "none", alert_id, alert_id)
    /\ UNCHANGED <<now, zone_last_alert, zone_alert_counts>>
    /\ UNCHANGED ctlVars
    /\ UNCHANGED intentVars

\* resolve_alert(request): request.alert_id.
ResolveAlert(alert_id) ==
    /\ IF alert_id \notin DOMAIN alerts THEN
            /\ UNCHANGED alerts
            /\ ret' = Ret("resolve", "none", "none", alert_id, 0)
       ELSE
            /\ alerts' = [alerts EXCEPT ![alert_id].status = "resolved"]
            /\ ret' = Ret("resolve", "none", "none", alert_id, alert_id)
    /\ UNCHANGED <<now, zone_last_alert, zone_alert_counts>>
    /\ UNCHANGED ctlVars
    /\ UNCHANGED intentVars

\* The routes of routers/alert.py: the service call, then 404 on a miss and
\* one audit record otherwise.
AcknowledgeRoute(alert_id, mark_as_false_positive) ==
    /\ IF alert_id \notin DOMAIN alerts THEN
            /\ UNCHANGED <<alerts, audit_entries>>
            /\ ret' = Ret("acknowledge", "none", "none", alert_id, 0)
       ELSE
            /\ alerts' = [alerts EXCEPT
                    ![alert_id].acknowledged = TRUE,
                    ![alert_id].status =
                        IF mark_as_false_positive THEN "false_positive"
                        ELSE "acknowledged"]
            /\ ret' = Ret("acknowledge", "none", "none", alert_id, alert_id)
            /\ audit_entries' = Append(audit_entries, "alert_acknowledged")
    /\ UNCHANGED <<now, zone_last_alert, zone_alert_counts>>
    /\ UNCHANGED <<request, response, broadcasts>>
    /\ UNCHANGED pushVars
    /\ UNCHANGED ctlVars

ResolveRoute(alert_id) ==
    /\ IF alert_id \notin DOMAIN alerts THEN
            /\ UNCHANGED <<alerts, audit_entries>>
            /\ ret' = Ret("resolve", "none", "none", alert_id, 0)
       ELSE
            /\ alerts' = [alerts EXCEPT ![alert_id].status = "resolved"]
            /\ ret' = Ret("resolve", "none", "none", alert_id, alert_id)
            /\ audit_entries' = Append(audit_entries, "alert_resolved")
    /\ UNCHANGED <<now, zone_last_alert, zone_alert_counts>>
    /\ UNCHANGED <<request, response, broadcasts>>
    /\ UNCHANGED pushVars
    /\ UNCHANGED ctlVars

\* The test of check_escalations without its two `continue` guards.
NeedsEscalationTimeoutOnly(alert, t) ==
    /\ t - alert.created_at > ESCALATION_TIMEOUT[alert.severity]
    /\ alert.escalation_level < EMERGENCY

\* The test of check_escalations with >= for >.
NeedsEscalationInclusive(alert, t) ==
    /\ alert.status = "active"
    /\ ~alert.acknowledged
    /\ t - alert.created_at >= ESCALATION_TIMEOUT[alert.severity]
    /\ alert.escalation_level < EMERGENCY

\* The test check_escalations applies to one alert at time t.
NeedsEscalation(alert, t) ==
    /\ alert.status = "active"
    /\ ~alert.acknowledged
    /\ t - alert.created_at > ESCALATION_TIMEOUT[alert.severity]
    /\ alert.escalation_level < EMERGENCY

\* The loop body of check_escalations without the change of status.
EscalatedKeepsActive(alert, t) ==
    [alert EXCEPT !.escalation_level = alert.escalation_level + 1,
                  !.escalated_at = Some(t)]

\* The body of the loop of check_escalations for an alert that is due.
Escalated(alert, t) ==
    [alert EXCEPT !.escalation_level = alert.escalation_level + 1,
                  !.escalated_at = Some(t),
                  !.status = "escalated"]

\* check_escalations(): one pass over the registry.
CheckEscalations ==
    /\ alerts' = [i \in DOMAIN alerts |->
                    IF NeedsEscalation(alerts[i], now)
                    THEN Escalated(alerts[i], now)
                    ELSE alerts[i]]
    /\ ret' = Ret("check_escalations", "none", "none", 0, 0)
    /\ UNCHANGED <<now, zone_last_alert, zone_alert_counts>>
    /\ UNCHANGED ctlVars
    /\ UNCHANGED intentVars

\* The clock moves to a later instant of the given set.
TickTo(points) ==
    /\ \E t \in points : t > now /\ now' = t
    /\ ret' = NoRet
    /\ UNCHANGED <<alerts, zone_last_alert, zone_alert_counts>>
    /\ UNCHANGED ctlVars
    /\ UNCHANGED intentVars

Tick == TickTo(TimePoints)

FloodTick == TickTo(FloodTimePoints)

----------------------------------------------------------------------------
(* Risk Classification Engine (services/intent_service.py)                 *)
(*                                                                         *)
(* Component scores and the rounded risk score are in hundredths of a      *)
(* point, confidences in hundredths, temporal multipliers in tenths.  The  *)
(* unrounded final score is kept exactly, in units of 1e-5 point (a score  *)
(* in hundredths times 45 hundredths times a multiplier in tenths).  The   *)
(* error of binary floating point is not modelled: round() sends an exact  *)
(* tie to the even neighbour, where Python follows the binary value; the   *)
(* requests examined have no tie.                                          *)

Max(a, b) == IF a >= b THEN a ELSE b
Min(a, b) == IF a <= b THEN a ELSE b

\* One point of risk score in the unit of the final score.
Point == 100000

RISK_THRESHOLD_SAFE == 25
RISK_THRESHOLD_SUSPICIOUS == 60

\* config.TIME_WEIGHTS, in tenths.
TIME_WEIGHTS ==
    [night_hours |-> 13, early_morning |-> 12, peak_hours |-> 9,
     maintenance_window |-> 5]

\* safe_clamp(value, min_val, max_val)
safe_clamp(value, min_val, max_val) == Max(min_val, Min(max_val, value))

\* safe_risk_score(raw_score): the score held to [0, 100].
safe_risk_score(raw_score) ==
    IF raw_score < 0 THEN 0
    ELSE IF raw_score > 100 * Point THEN 100 * Point
    ELSE raw_score

\* round(n / d, 0) for n >= 0, d > 0: to the nearest, ties to even.
RoundDiv(n, d) ==
    LET q == n \div d
        r == n % d
    IN  IF 2 * r > d THEN q + 1
        ELSE IF 2 * r < d THEN q
        ELSE IF q % 2 = 0 THEN q ELSE q + 1

\* _calculate_temporal_context(timestamp).time_risk_modifier, by the hour.
TimeRiskModifier(hour) ==
    LET is_night == hour >= 22 \/ hour < 5
        is_early_morning == 5 <= hour /\ hour < 7
        is_peak == (7 <= hour /\ hour < 10) \/ (17 <= hour /\ hour < 20)
    IN  IF is_night THEN TIME_WEIGHTS.night_hours
        ELSE IF is_early_morning THEN TIME_WEIGHTS.early_morning
        ELSE IF is_peak THEN TIME_WEIGHTS.peak_hours
        ELSE 10

\* The component score classify reads from an analysis: 0.0 when there is
\* none, then safe_clamp to [0, 100].
ComponentScore(analysis, score) ==
    safe_clamp(IF analysis # None THEN score ELSE 0, 0, 10000)

VisionScore(req) ==
    ComponentScore(req.vision,
                   IF req.vision # None THEN req.vision[1].vision_risk_score ELSE 0)

SensorScore(req) ==
    ComponentScore(req.sensor,
                   IF req.sensor # None THEN req.sensor[1].sensor_risk_score ELSE 0)

\* base_score with the two components weighted one half each.
BaseScoreEven(req) == VisionScore(req) * 50 + SensorScore(req) * 50

\* base_score = vision_score * 0.45 + sensor_score * 0.45, in 1e-4 point.
BaseScore(req) == VisionScore(req) * 45 + SensorScore(req) * 45

\* final_score = base_score * max(modifier, 0.0), through safe_risk_score.
FinalScore(req) ==
    safe_risk_score(BaseScore(req) * Max(TimeRiskModifier(req.hour), 0))

\* The detections that trigger the vision override, by position.
Overriding(detections) ==
    {i \in DOMAIN detections :
        /\ detections[i].class_label \in {"missing_fish_plate", "track_displacement"}
        /\ detections[i].confidence >= 85}

\* The smallest element of a non-empty set of naturals.
First(S) == CHOOSE i \in S : \A j \in S : i <= j

\* The threshold branch of _determine_classification with the two upper
\* tiers exchanged.
ThresholdVerdictSwapped(risk_score) ==
    LET threshold_safe == Max(RISK_THRESHOLD_SAFE * Point, Point \div 100)
        threshold_suspicious ==
            Max(RISK_THRESHOLD_SUSPICIOUS * Point, threshold_safe + Point \div 100)
    IN  IF risk_score < threshold_safe THEN <<"SAFE", 100>>
        ELSE IF risk_score < threshold_suspicious THEN <<"CONFIRMED_TAMPERING", 70>>
        ELSE <<"SUSPICIOUS", 50>>

\* The threshold branch of _determine_classification with <= for <, giving
\* each boundary score to the lower tier.
ThresholdVerdictInclusive(risk_score) ==
    LET threshold_safe == Max(RISK_THRESHOLD_SAFE * Point, Point \div 100)
        threshold_suspicious ==
            Max(RISK_THRESHOLD_SUSPICIOUS * Point, threshold_safe + Point \div 100)
        suspicious_range == threshold_suspicious - threshold_safe
        tampering_range == 100 * Point - threshold_suspicious
    IN  IF risk_score <= threshold_safe THEN
            <<"SAFE", RoundDiv(Max(threshold_safe - risk_score, 0) * 100, threshold_safe)>>
        ELSE IF risk_score <= threshold_suspicious THEN
            <<"SUSPICIOUS",
              RoundDiv(50 * suspicious_range + (risk_score - threshold_safe) * 30,
                       suspicious_range)>>
        ELSE
            <<"CONFIRMED_TAMPERING",
              RoundDiv(Min(70 * tampering_range
                            + (risk_score - threshold_suspicious) * 30,
                           100 * tampering_range),
                       tampering_range)>>

\* The threshold branch of _determine_classification: <<tier, confidence>>.
ThresholdVerdict(risk_score) ==
    LET threshold_safe == Max(RISK_THRESHOLD_SAFE * Point, Point \div 100)
        threshold_suspicious ==
            Max(RISK_THRESHOLD_SUSPICIOUS * Point, threshold_safe + Point \div 100)
        suspicious_range == threshold_suspicious - threshold_safe
        tampering_range == 100 * Point - threshold_suspicious
    IN  IF risk_score < threshold_safe THEN
            <<"SAFE", RoundDiv(Max(threshold_safe - risk_score, 0) * 100, threshold_safe)>>
        ELSE IF risk_score < threshold_suspicious THEN
            <<"SUSPICIOUS",
              RoundDiv(50 * suspicious_range + (risk_score - threshold_safe) * 30,
                       suspicious_range)>>
        ELSE
            <<"CONFIRMED_TAMPERING",
              RoundDiv(Min(70 * tampering_range
                            + (risk_score - threshold_suspicious) * 30,
                           100 * tampering_range),
                       tampering_range)>>

\* _determine_classification with the sensor override tried before the
\* vision override.
DetermineClassificationSensorFirst(risk_score, vision, sensor) ==
    IF /\ sensor # None
       /\ sensor[1].is_coordinated
       /\ sensor[1].sabotage_likelihood >= 70
    THEN <<"CONFIRMED_TAMPERING", sensor[1].sabotage_likelihood>>
    ELSE IF vision # None /\ Overriding(vision[1].detections) # {} THEN
        <<"CONFIRMED_TAMPERING",
          vision[1].detections[First(Overriding(vision[1].detections))].confidence>>
    ELSE ThresholdVerdict(risk_score)

\* _determine_classification(risk_score, vision_analysis, sensor_analysis):
\* the vision override, then the sensor override, then the thresholds.
DetermineClassification(risk_score, vision, sensor) ==
    IF vision # None /\ Overriding(vision[1].detections) # {} THEN
        <<"CONFIRMED_TAMPERING",
          vision[1].detections[First(Overriding(vision[1].detections))].confidence>>
    ELSE IF /\ sensor # None
            /\ sensor[1].is_coordinated
            /\ sensor[1].sabotage_likelihood >= 70
    THEN <<"CONFIRMED_TAMPERING", sensor[1].sabotage_likelihood>>
    ELSE ThresholdVerdict(risk_score)

\* IntentClassifyResponse(...) as classify builds it; risk_score is
\* round(final_score, 2).
BuildResponse(req) ==
    LET final_score == FinalScore(req)
        verdict == DetermineClassification(final_score, req.vision, req.sensor)
    IN  [zone_id |-> req.zone_id,
         classification |-> verdict[1],
         risk_score |-> RoundDiv(final_score, Point \div 100),
         confidence |-> verdict[2],
         vision_risk_score |-> VisionScore(req),
         sensor_risk_score |-> SensorScore(req),
         temporal_modifier |-> TimeRiskModifier(req.hour)]

\* The Field constraints of IntentClassifyResponse, not enforced.
ValidResponseUnchecked(r) == TRUE

\* The Field constraints of IntentClassifyResponse (ge / le): the
\* constructor raises a ValidationError when one fails.
ValidResponse(r) ==
    /\ 0 <= r.risk_score /\ r.risk_score <= 10000
    /\ 0 <= r.confidence /\ r.confidence <= 100
    /\ 0 <= r.vision_risk_score /\ r.vision_risk_score <= 10000
    /\ 0 <= r.sensor_risk_score /\ r.sensor_risk_score <= 10000
    /\ 5 <= r.temporal_modifier /\ r.temporal_modifier <= 20

NoRequest == [zone_id |-> "none"]

NoResponse == [zone_id |-> "none", classification |-> "none"]

\* classify raised: classify_intent answers HTTP 500.
Raised(zone_id) == [zone_id |-> zone_id, classification |-> "raised"]

\* classify_intent up to the return of classify: the response is built and
\* its envelope handed to manager.broadcast; a ValidationError leaves the
\* handler through its except branch, which logs an error record, with no
\* broadcast.
Classify(req) ==
    /\ request = NoRequest
    /\ IF ValidResponse(BuildResponse(req)) THEN
            /\ request' = req
            /\ response' = BuildResponse(req)
            /\ broadcasts' = Append(broadcasts, Envelope(response'.classification))
            /\ UNCHANGED audit_entries
       ELSE
            /\ request' = NoRequest
            /\ response' = Raised(req.zone_id)
            /\ audit_entries' = Append(audit_entries, "error")
            /\ UNCHANGED broadcasts
    /\ UNCHANGED <<now, alerts, zone_last_alert, zone_alert_counts, ret>>
    /\ UNCHANGED ctlVars
    /\ UNCHANGED pushVars

\* classify_intent after classify returned: the alert for a verdict that is
\* not SAFE, then the return of the response.
RouterAlert ==
    /\ request # NoRequest
    /\ IF response.classification # "SAFE"
       THEN CreateAlertEffect(response.zone_id, response.classification,
                              response.risk_score)
       ELSE UNCHANGED <<alerts, zone_last_alert, zone_alert_counts, ret>>
    /\ request' = NoRequest
    /\ audit_entries' = Append(audit_entries, "intent_classification")
    /\ UNCHANGED <<now, response, broadcasts>>
    /\ UNCHANGED ctlVars
    /\ UNCHANGED pushVars

----------------------------------------------------------------------------

\* What a handler of /classify holds while it awaits classify and after it
\* returned: the verdict, whether another handler was awaiting when this
\* one was called, and the index of the alert raised (0 for none, -1 while
\* the handler is suspended).
RoutePayload(zone_id, v, concurrent, alert) ==
    [op |-> "classify", zone_id |-> zone_id, classification |-> v[1],
     risk_score |-> v[2], concurrent |-> concurrent, alert |-> alert]

\* classify_intent called by handler t: classify builds the response with
\* verdict v, hands its envelope to manager.broadcast and is suspended
\* there (or was, in an adapter, before).
RouteCall(t, zone_id, v) ==
    /\ pc[t] = "idle"
    /\ Len(broadcasts) < MaxRequests
    /\ pc' = [pc EXCEPT ![t] = "classify"]
    /\ result' = [result EXCEPT ![t] =
            RoutePayload(zone_id, v, \E u \in Tasks \ {t} : pc[u] = "classify", -1)]
    /\ broadcasts' = Append(broadcasts, Envelope(v[1]))
    /\ UNCHANGED <<now, state, lock, started_at, last_run_at, run_count,
                   error_message, exc, calls, request, response>>
    /\ UNCHANGED alertVars
    /\ UNCHANGED pushVars
    /\ UNCHANGED audit_entries

\* The handler resumed with the gates taken as passed: the alert of a
\* verdict that is not SAFE is registered without a check.
RouteResumeUnchecked(t) ==
    /\ pc[t] = "classify"
    /\ pc' = [pc EXCEPT ![t] = "idle"]
    /\ LET r == result[t] IN
        IF r.classification # "SAFE" THEN
            /\ alerts' = Append(alerts, NewAlert(r.zone_id, r.classification, r.risk_score))
            /\ zone_last_alert' = [zone_last_alert EXCEPT ![r.zone_id] = Some(now)]
            /\ zone_alert_counts' = [zone_alert_counts EXCEPT
                    ![r.zone_id] = Append(zone_alert_counts[r.zone_id], now)]
            /\ ret' = Ret("create", r.zone_id, r.classification, 0, Len(alerts) + 1)
            /\ result' = [result EXCEPT ![t].alert = Len(alerts) + 1]
        ELSE
            /\ UNCHANGED <<alerts, zone_last_alert, zone_alert_counts, ret>>
            /\ result' = [result EXCEPT ![t].alert = 0]
    /\ audit_entries' = Append(audit_entries, "intent_classification")
    /\ UNCHANGED <<now, state, lock, started_at, last_run_at, run_count,
                   error_message, exc, calls>>
    /\ UNCHANGED <<request, response, broadcasts>>
    /\ UNCHANGED pushVars

\* classify returned to handler t: from the await to the return of
\* classify_intent nothing suspends, so the audit record, the gate checks
\* and the registration of create_alert_from_classification are one step.
RouteResume(t) ==
    /\ pc[t] = "classify"
    /\ pc' = [pc EXCEPT ![t] = "idle"]
    /\ LET r == result[t] IN
        IF r.classification # "SAFE" THEN
            /\ CreateAlertEffect(r.zone_id, r.classification, r.risk_score)
            /\ result' = [result EXCEPT ![t].alert = ret'.alert]
        ELSE
            /\ UNCHANGED <<alerts, zone_last_alert, zone_alert_counts, ret>>
            /\ result' = [result EXCEPT ![t].alert = 0]
    /\ audit_entries' = Append(audit_entries, "intent_classification")
    /\ UNCHANGED <<now, state, lock, started_at, last_run_at, run_count,
                   error_message, exc, calls>>
    /\ UNCHANGED <<request, response, broadcasts>>
    /\ UNCHANGED pushVars

----------------------------------------------------------------------------
(* Push sink: ConnectionManager (websockets.py) and the /ws endpoint       *)
(*                                                                         *)
(* A websocket is named by the order in which it was accepted.             *)

\* The locals of a broadcast() that is not running.
NoLoop == [i |-> 0, connection |-> 0, disconnected |-> << >>, connected |-> {}]

\* The websockets in a list.
Connections(list) == {list[k] : k \in DOMAIN list}

\* manager.connect(websocket), from websocket_endpoint.
Connect ==
    /\ accepted < MaxClients
    /\ accepted' = accepted + 1
    /\ active_connections' = Append(active_connections, accepted + 1)
    /\ UNCHANGED <<now, request, response, broadcasts, loop, received>>
    /\ UNCHANGED ctlVars
    /\ UNCHANGED alertVars
    /\ UNCHANGED audit_entries

\* manager.disconnect(websocket), from the finally block of
\* websocket_endpoint once the client is gone.
Disconnect(websocket) ==
    /\ websocket \in Connections(active_connections)
    /\ active_connections' = SelectSeq(active_connections, LAMBDA c : c # websocket)
    /\ UNCHANGED <<now, request, response, broadcasts, accepted, loop, received>>
    /\ UNCHANGED ctlVars
    /\ UNCHANGED alertVars
    /\ UNCHANGED audit_entries

\* classify, called by handler t, has built its response and calls
\* manager.broadcast: the loop takes the first connection of the list and
\* is suspended in send_json; with no connection broadcast returns at once
\* and classify returns the response.
BroadcastCall(t, zone_id, v) ==
    /\ pc[t] \in {"idle", "returned"}
    /\ Len(broadcasts) < MaxRequests
    /\ broadcasts' = Append(broadcasts, Envelope(v[1]))
    /\ result' = [result EXCEPT ![t] =
            RoutePayload(zone_id, v, \E u \in Tasks \ {t} : pc[u] = "send", -1)]
    /\ received' = [received EXCEPT ![t] = {}]
    /\ IF active_connections = << >> THEN
            /\ pc' = [pc EXCEPT ![t] = "returned"]
            /\ loop' = [loop EXCEPT ![t] = NoLoop]
       ELSE
            /\ pc' = [pc EXCEPT ![t] = "send"]
            /\ loop' = [loop EXCEPT ![t] =
                    [i |-> 1, connection |-> active_connections[1],
                     disconnected |-> << >>,
                     connected |-> Connections(active_connections)]]
    /\ UNCHANGED <<now, state, lock, started_at, last_run_at, run_count,
                   error_message, exc, calls, request, response,
                   active_connections, accepted>>
    /\ UNCHANGED alertVars
    /\ UNCHANGED audit_entries

\* The send_json awaited by the broadcast of handler t returns (ok) or
\* raises an Exception; the for loop then takes the next position of the
\* list as it is now, or ends: the dead connections are removed, broadcast
\* returns and classify returns its response.
SendCompletes(t, ok) ==
    /\ pc[t] = "send"
    /\ LET dead == IF ok THEN loop[t].disconnected
                   ELSE Append(loop[t].disconnected, loop[t].connection)
           next == loop[t].i + 1
       IN  /\ received' = [received EXCEPT ![t] =
                    IF ok THEN @ \cup {loop[t].connection} ELSE @]
           /\ IF next <= Len(active_connections) THEN
                    /\ loop' = [loop EXCEPT ![t].i = next,
                                            ![t].connection = active_connections[next],
                                            ![t].disconnected = dead]
                    /\ UNCHANGED <<pc, active_connections>>
              ELSE
                    /\ loop' = [loop EXCEPT ![t].i = 0,
                                            ![t].connection = 0,
                                            ![t].disconnected = dead]
                    /\ active_connections' =
                            SelectSeq(active_connections,
                                      LAMBDA c : c \notin Connections(dead))
                    /\ pc' = [pc EXCEPT ![t] = "returned"]
    /\ UNCHANGED <<now, state, lock, started_at, last_run_at, run_count,
                   error_message, exc, result, calls, request, response,
                   broadcasts, accepted>>
    /\ UNCHANGED alertVars
    /\ UNCHANGED audit_entries

----------------------------------------------------------------------------

(* Guarded arithmetic (utils/safe_math.py)                                 *)
(*                                                                         *)
(* Arguments are integers; a float result is kept exactly, as a fraction   *)
(* <<n, d>> in lowest terms with d > 0.  The rounding of binary floating   *)
(* point, infinities and NaN are not modelled.                             *)

Abs(x) == IF x < 0 THEN -x ELSE x

RECURSIVE Gcd(_, _)
Gcd(a, b) == IF b = 0 THEN a ELSE Gcd(b, a % b)

\* A number as a fraction.
Whole(x) == <<x, 1>>

\* numerator / denominator for a denominator that is not zero.
Quotient(numerator, denominator) ==
    LET g == Gcd(Abs(numerator), Abs(denominator))
        s == IF denominator < 0 THEN -1 ELSE 1
    IN  <<(s * numerator) \div g, (s * denominator) \div g>>

\* sum(values)
RECURSIVE Sum(_)
Sum(values) == IF values = << >> THEN 0 ELSE Head(values) + Sum(Tail(values))

\* sum(v * w for v, w in zip(values, weights)), for lists of one length.
RECURSIVE WeightedSum(_, _)
WeightedSum(values, weights) ==
    IF values = << >> THEN 0
    ELSE Head(values) * Head(weights) + WeightedSum(Tail(values), Tail(weights))

\* safe_divide with the zero guard dropped: the quotient is taken as 0 over
\* whatever the denominator is and reported as a success.
safe_divide_unguarded(numerator, denominator, default) ==
    IF denominator = 0 THEN <<Whole(0), None>>
    ELSE <<Quotient(numerator, denominator), None>>

\* safe_divide(numerator, denominator, default): <<result, reason_code>>.
safe_divide(numerator, denominator, default) ==
    IF denominator = 0 THEN <<Whole(default), Some("DENOMINATOR_ZERO")>>
    ELSE <<Quotient(numerator, denominator), None>>

\* safe_average(values, default)
safe_average(values, default) ==
    IF values = << >> THEN <<Whole(default), Some("EMPTY_ARRAY")>>
    ELSE safe_divide(Sum(values), Len(values), default)

\* safe_weighted_average(values, weights, default)
safe_weighted_average(values, weights, default) ==
    IF values = << >> \/ weights = << >> THEN
        <<Whole(default), Some("EMPTY_ARRAY")>>
    ELSE IF Len(values) # Len(weights) THEN
        <<Whole(default), Some("NO_VALID_VALUES")>>
    ELSE IF Sum(weights) = 0 THEN
        <<Whole(default), Some("ALL_WEIGHTS_ZERO")>>
    ELSE safe_divide(WeightedSum(values, weights), Sum(weights), default)

\* safe_normalize(value, min_val, max_val, default): the quotient limited
\* to [0, 1].
safe_normalize(value, min_val, max_val, default) ==
    LET range_size == max_val - min_val IN
    IF range_size = 0 THEN <<Whole(default), Some("NORMALIZATION_FALLBACK")>>
    ELSE LET normalized == Quotient(value - min_val, range_size)
         IN  <<IF normalized[1] < 0 THEN Whole(0)
               ELSE IF normalized[1] > normalized[2] THEN Whole(1)
               ELSE normalized,
               None>>

\* A call of one of the guarded functions and what it returned.
MathRet(op, args, returned) ==
    [op |-> op, args |-> args, value |-> returned[1], reason |-> returned[2]]

SafeDivideCall(numerator, denominator, default) ==
    /\ ret' = MathRet("safe_divide", <<numerator, denominator, default>>,
                      safe_divide(numerator, denominator, default))
    /\ UNCHANGED <<now, alerts, zone_last_alert, zone_alert_counts>>
    /\ UNCHANGED ctlVars
    /\ UNCHANGED intentVars

SafeAverageCall(values, default) ==
    /\ ret' = MathRet("safe_average", <<values, default>>,
                      safe_average(values, default))
    /\ UNCHANGED <<now, alerts, zone_last_alert, zone_alert_counts>>
    /\ UNCHANGED ctlVars
    /\ UNCHANGED intentVars

SafeWeightedAverageCall(values, weights, default) ==
    /\ ret' = MathRet("safe_weighted_average", <<values, weights, default>>,
                      safe_weighted_average(values, weights, default))
    /\ UNCHANGED <<now, alerts, zone_last_alert, zone_alert_counts>>
    /\ UNCHANGED ctlVars
    /\ UNCHANGED intentVars

SafeNormalizeCall(value, min_val, max_val, default) ==
    /\ ret' = MathRet("safe_normalize", <<value, min_val, max_val, default>>,
                      safe_normalize(value, min_val, max_val, default))
    /\ UNCHANGED <<now, alerts, zone_last_alert, zone_alert_counts>>
    /\ UNCHANGED ctlVars
    /\ UNCHANGED intentVars

\* safe_clamp returns the number alone.
SafeClampCall(value, min_val, max_val) ==
    /\ ret' = MathRet("safe_clamp", <<value, min_val, max_val>>,
                      <<Whole(safe_clamp(value, min_val, max_val)), None>>)
    /\ UNCHANGED <<now, alerts, zone_last_alert, zone_alert_counts>>
    /\ UNCHANGED ctlVars
    /\ UNCHANGED intentVars

----------------------------------------------------------------------------

\* A call of _determine_classification(risk_score, vision, sensor) on its
\* own: the arguments and the <<classification, confidence>> returned.
DetermineCall(risk_score, vision, sensor) ==
    /\ request = NoRequest
    /\ response = NoResponse
    /\ request' = [zone_id |-> "any", risk_score |-> risk_score,
                   vision |-> vision, sensor |-> sensor]
    /\ response' =
            [zone_id |-> "any",
             classification |-> DetermineClassification(risk_score, vision, sensor)[1],
             confidence |-> DetermineClassification(risk_score, vision, sensor)[2]]
    /\ UNCHANGED <<now, alerts, zone_last_alert, zone_alert_counts, ret, broadcasts>>
    /\ UNCHANGED ctlVars
    /\ UNCHANGED pushVars
    /\ UNCHANGED audit_entries

Init ==
    /\ now = 0
    /\ state = "STOPPED"
    /\ lock = NoTask
    /\ started_at = None
    /\ last_run_at = None
    /\ run_count = 0
    /\ error_message = None
    /\ pc = [t \in Tasks |-> "idle"]
    /\ exc = [t \in Tasks |-> None]
    /\ result = [t \in Tasks |-> NoResult]
    /\ calls = 0
    /\ alerts = << >>
    /\ zone_last_alert = [z \in Zones |-> None]
    /\ zone_alert_counts = [z \in Zones |-> << >>]
    /\ ret = NoRet
    /\ request = NoRequest
    /\ response = NoResponse
    /\ broadcasts = << >>
    /\ active_connections = << >>
    /\ accepted = 0
    /\ loop = [t \in Tasks |-> NoLoop]
    /\ received = [t \in Tasks |-> {}]
    /\ audit_entries = << >>

NextCtl ==
    \/ \E t \in Tasks : RunCall(t)
    \/ \E t \in Tasks : RunAcquire(t)
    \/ \E t \in Tasks : RunBegin(t)
    \/ \E t \in Tasks, cls \in Classifications : CycleReturns(t, cls)
    \/ \E t \in Tasks, msg \in Msgs : CycleRaises(t, msg)
    \/ \E t \in Tasks : CycleCancelled(t)
    \/ \E t \in Tasks : OkAcquire(t)
    \/ \E t \in Tasks : OkCommit(t)
    \/ \E t \in Tasks : ErrAcquire(t)
    \/ \E t \in Tasks : ErrCommit(t)
    \/ \E t \in Tasks : ResetCall(t)
    \/ \E t \in Tasks : ResetAcquire(t)
    \/ \E t \in Tasks : ResetBody(t)
    \/ TickCtl

CtlSpec == Init /\ [][NextCtl]_vars

\* The controller when no task is ever cancelled.
NextNoCancel ==
    \/ \E t \in Tasks : RunCall(t)
    \/ \E t \in Tasks : RunAcquire(t)
    \/ \E t \in Tasks : RunBegin(t)
    \/ \E t \in Tasks, cls \in Classifications : CycleReturns(t, cls)
    \/ \E t \in Tasks, msg \in Msgs : CycleRaises(t, msg)
    \/ \E t \in Tasks : OkAcquire(t)
    \/ \E t \in Tasks : OkCommit(t)
    \/ \E t \in Tasks : ErrAcquire(t)
    \/ \E t \in Tasks : ErrCommit(t)
    \/ \E t \in Tasks : ResetCall(t)
    \/ \E t \in Tasks : ResetAcquire(t)
    \/ \E t \in Tasks : ResetBody(t)
    \/ TickCtl

NoCancelSpec == Init /\ [][NextNoCancel]_vars

\* The alert service: every operation, a registry of up to MaxAlerts alerts.
Next ==
    \/ \E z \in Zones, v \in Verdicts :
            Len(alerts) < MaxAlerts /\ CreateAlert(z, v[1], v[2])
    \/ \E id \in 1..(MaxAlerts + 1), fp \in BOOLEAN : AcknowledgeAlert(id, fp)
    \/ \E id \in 1..(MaxAlerts + 1) : ResolveAlert(id)
    \/ CheckEscalations
    \/ Tick

Spec == Init /\ [][Next]_vars

\* The gates of one zone over more than an hour.
NextFlood ==
    \/ \E z \in FloodZones, v \in FloodVerdicts :
            Len(alerts) < FloodMaxAlerts /\ CreateAlert(z, v[1], v[2])
    \/ FloodTick

FloodSpec == Init /\ [][NextFlood]_vars

\* The gates of two zones: one zone over more than an hour as in FloodSpec,
\* beside it a zone that raises its one alert at any instant.
NextGates ==
    \/ \E z \in FloodZones, v \in FloodVerdicts :
            Len(alerts) < FloodMaxAlerts /\ CreateAlert(z, v[1], v[2])
    \/ \E z \in Zones \ FloodZones, v \in FloodVerdicts :
            zone_last_alert[z] = None /\ CreateAlert(z, v[1], v[2])
    \/ FloodTick

GateSpec == Init /\ [][NextGates]_vars

\* The instants of ConcurrentSpec: inside the cooldown, at its end, and
\* past the escalation timeout of MEDIUM.
ConcurrentTimePoints == {0, 60, 300, 901}

\* Concurrent /classify handlers for one zone beside acknowledge, resolve
\* and escalation calls.
NextConcurrent ==
    \/ \E t \in Tasks, z \in FloodZones, v \in FloodVerdicts : RouteCall(t, z, v)
    \/ \E t \in Tasks : RouteResume(t)
    \/ \E id \in 1..(MaxAlerts + 1), fp \in BOOLEAN : AcknowledgeAlert(id, fp)
    \/ \E id \in 1..(MaxAlerts + 1) : ResolveAlert(id)
    \/ CheckEscalations
    \/ TickTo(ConcurrentTimePoints)

ConcurrentSpec == Init /\ [][NextConcurrent]_vars

\* The push sink: clients come and go while handlers broadcast.
NextPush ==
    \/ Connect
    \/ \E websocket \in 1..MaxClients : Disconnect(websocket)
    \/ \E t \in Tasks, z \in FloodZones, v \in FloodVerdicts : BroadcastCall(t, z, v)
    \/ \E t \in Tasks, ok \in BOOLEAN : SendCompletes(t, ok)

PushSpec == Init /\ [][NextPush]_vars

\* The instants of AuditSpec: the start and one second past the cooldown
\* (and past the escalation timeouts of HIGH and CRITICAL).
AuditTimePoints == {0, 301}

\* Everything that classifies or changes an alert: the /classify route, a
\* run_single cycle of one handler, the acknowledge and resolve routes and
\* the escalation pass.
NextAudit ==
    \/ /\ Len(broadcasts) < MaxRequests
       /\ Len(audit_entries) < MaxAudit
       /\ \E req \in PipelineRequests : Classify(req)
    \/ RouterAlert
    \/ RunCall("t1")
    \/ RunAcquire("t1")
    \/ RunBegin("t1")
    \/ /\ Len(broadcasts) < MaxRequests
       /\ \E cls \in Classifications : CycleReturns("t1", cls)
    \/ OkAcquire("t1")
    \/ OkCommit("t1")
    \/ /\ Len(audit_entries) < MaxAudit
       /\ \E id \in 1..(MaxAlerts + 1), fp \in BOOLEAN : AcknowledgeRoute(id, fp)
    \/ /\ Len(audit_entries) < MaxAudit
       /\ \E id \in 1..(MaxAlerts + 1) : ResolveRoute(id)
    \/ CheckEscalations
    \/ TickTo(AuditTimePoints)

AuditSpec == Init /\ [][NextAudit]_vars

----------------------------------------------------------------------------
(* Specifications over the inputs of the pure functions                    *)

\* The verdicts the router can hand to the alert service: SUSPICIOUS carries
\* a score from 25 up to 60, CONFIRMED_TAMPERING any score (override rules).
SeverityVerdicts ==
    ({"SUSPICIOUS"} \X (2500..5999)) \cup ({"CONFIRMED_TAMPERING"} \X RiskScores)

\* One alert per behaviour, for every score the service can be handed.
NextSeverity ==
    \E z \in FloodZones, v \in SeverityVerdicts :
        alerts = << >> /\ CreateAlert(z, v[1], v[2])

SeveritySpec == Init /\ [][NextSeverity]_vars

----------------------------------------------------------------------------
\* One classification per behaviour, for every request of Requests, then
\* the alert the router raises for it.
NextClassify ==
    \/ /\ broadcasts = << >>
       /\ response = NoResponse
       /\ \E req \in Requests : Classify(req)
    \/ RouterAlert

ClassifySpec == Init /\ [][NextClassify]_vars

----------------------------------------------------------------------------
\* The final scores handed to _determine_classification: every hundredth of
\* a point from 0 to 100 and the value just below each threshold.
ThresholdScores ==
    {k * (Point \div 100) : k \in RiskScores}
        \cup {RISK_THRESHOLD_SAFE * Point - 1, RISK_THRESHOLD_SUSPICIOUS * Point - 1}

\* The evidence handed over with them: none, a missing fish plate seen just
\* below and at the override confidence, coordinated sensors just below and
\* at the override likelihood.
ThresholdVisions ==
    {None} \cup {Some([vision_risk_score |-> 5400,
                      detections |-> <<[class_label |-> "missing_fish_plate",
                                        confidence |-> c]>>]) : c \in {84, 85}}
ThresholdSensors ==
    {None} \cup {Some([sensor_risk_score |-> 5600, is_coordinated |-> TRUE,
                      sabotage_likelihood |-> l]) : l \in {69, 70}}

\* One call of _determine_classification per behaviour.
NextThreshold ==
    /\ request = NoRequest
    /\ response = NoResponse
    /\ \E s \in ThresholdScores, v \in ThresholdVisions, n \in ThresholdSensors :
            DetermineCall(s, v, n)

ThresholdSpec == Init /\ [][NextThreshold]_vars

----------------------------------------------------------------------------
\* The arguments of the guarded arithmetic functions: numbers on both sides
\* of 0 and of the range 0..100, lists of up to two numbers, two defaults.
MathNumbers == {-1, 0, 5, 100, 150}
MathElements == {-1, 0, 1, 5}
MathLists ==
    {<< >>} \cup {<<x>> : x \in MathElements}
            \cup {<<x, y>> : x \in MathElements, y \in MathElements}
MathDefaults == {-1, 0}

\* One call of a guarded function per behaviour.
NextMath ==
    /\ ret = NoRet
    /\ \/ \E n \in MathNumbers, d \in MathNumbers, def \in MathDefaults :
            SafeDivideCall(n, d, def)
       \/ \E values \in MathLists, def \in MathDefaults :
            SafeAverageCall(values, def)
       \/ \E values \in MathLists, weights \in MathLists, def \in MathDefaults :
            SafeWeightedAverageCall(values, weights, def)
       \/ \E v \in MathNumbers, lo \in MathNumbers, hi \in MathNumbers,
                def \in MathDefaults :
            SafeNormalizeCall(v, lo, hi, def)
       \/ \E v \in MathNumbers, lo \in MathNumbers, hi \in MathNumbers :
            SafeClampCall(v, lo, hi)

MathSpec == Init /\ [][NextMath]_vars

----------------------------------------------------------------------------

\* The /classify route and one simulation task side by side: both reach
\* classify, the route also the alert service.
NextPipeline ==
    \/ /\ Len(broadcasts) < MaxRequests
       /\ Len(audit_entries) < MaxAudit
       /\ \E req \in PipelineRequests : Classify(req)
    \/ RouterAlert
    \/ RunCall("t1")
    \/ RunAcquire("t1")
    \/ RunBegin("t1")
    \/ \E cls \in Classifications : CycleReturns("t1", cls)
    \/ \E msg \in Msgs : CycleRaises("t1", msg)
    \/ CycleCancelled("t1")
    \/ OkAcquire("t1")
    \/ OkCommit("t1")
    \/ ErrAcquire("t1")
    \/ ErrCommit("t1")

PipelineSpec == Init /\ [][NextPipeline]_vars

----------------------------------------------------------------------------

(* Claims about the Run Controller, checked under CtlSpec                  *)

\* C1: at most one classification cycle (the work between a call's
\* transition to RUNNING and its transition to STOPPED or ERROR) is in
\* flight at any time.
C1_SingleFlight == Cardinality({t \in Tasks : InFlight(t)}) <= 1

\* C2: a run_single call whose cycle raised an exception returns the failure
\* payload (success false, the error text, state ERROR) and nothing
\* propagates; the step that handles the exception leaves the controller in
\* ERROR with that error text recorded.
C2_FailureContained ==
    /\ [](\A t \in Tasks :
            (pc[t] = "idle" /\ exc[t] # None) =>
                /\ result[t].op = "run_single"
                /\ result[t].success = FALSE
                /\ result[t].raised = FALSE
                /\ result[t].error = exc[t]
                /\ result[t].state = "ERROR")
    /\ [][\A t \in Tasks :
            (pc[t] = "err_commit" /\ pc'[t] = "idle") =>
                (state' = "ERROR" /\ error_message' = exc[t])]_vars

\* C2 witness: a call has returned the failure payload of a raised cycle.
C2_Witness ==
    \E t \in Tasks :
        /\ pc[t] = "idle"
        /\ exc[t] = Some("boom")
        /\ result[t].success = FALSE
        /\ state = "ERROR"
        /\ error_message = Some("boom")

\* C3: whenever the controller state is ERROR the recorded error message is
\* non-empty, whatever the text of the exception.
C3_ErrorHasMessage ==
    state = "ERROR" => (error_message # None /\ error_message # Some(""))

\* C4: the controller state is RUNNING if and only if a run_single cycle is
\* in flight.
C4_RunningIffInFlight ==
    (state = "RUNNING") <=> (\E t \in Tasks : InFlight(t))

\* C5: reset() in ERROR sets STOPPED and clears the error message; in
\* RUNNING or STOPPED it leaves state, error message, run count, started-at
\* and last-run-at unchanged.
C5_ResetFrame ==
    [][\A t \in Tasks :
        (pc[t] = "reset_body" /\ pc'[t] = "idle") =>
            IF state = "ERROR"
            THEN /\ state' = "STOPPED"
                 /\ error_message' = None
                 /\ UNCHANGED <<run_count, started_at, last_run_at>>
            ELSE UNCHANGED <<state, error_message, run_count, started_at,
                             last_run_at>>]_vars

\* C5 witness: a reset() issued in ERROR has returned, after a cycle had run
\* and one had failed.
C5_Witness ==
    \E t \in Tasks :
        /\ result[t].op = "reset"
        /\ result[t].note = "reset from ERROR"
        /\ result[t].state = "STOPPED"
        /\ state = "STOPPED"
        /\ error_message = None
        /\ started_at # None

\* C6: the controller is never left in RUNNING with no cycle in flight,
\* also when a cycle is cut short.
C6_NoOrphanRunning ==
    state = "RUNNING" => (\E t \in Tasks : InFlight(t))

----------------------------------------------------------------------------
\* A successful cycle records its outcome in this step.
SuccessRecorded(t) == pc[t] = "ok_commit" /\ pc'[t] = "idle"

\* C24: run_count counts the cycles that completed successfully: it starts
\* at 0, each success adds exactly one and records the last-run time,
\* nothing else (failure, cancellation, reset, another call's steps) changes
\* it, and no increment is lost between concurrent calls.
C24_RunCountCountsSuccesses ==
    [][/\ \A t \in Tasks : SuccessRecorded(t) =>
            (run_count' = run_count + 1 /\ last_run_at' = Some(now))
       /\ run_count' # run_count => \E t \in Tasks : SuccessRecorded(t)
       /\ run_count <= calls]_vars

\* C24 witness: of three calls two have succeeded and the last one of the
\* other task has failed; the counter stands at 2.
C24_Witness ==
    /\ run_count = 2
    /\ calls = 3
    /\ \E t, u \in Tasks :
        /\ t # u
        /\ pc[t] = "idle" /\ result[t].op = "run_single" /\ result[t].success
        /\ pc[u] = "idle" /\ result[u].op = "run_single" /\ ~result[u].success
        /\ exc[u] # None

\* C27: the stored error message is present only when the controller state
\* is ERROR: in STOPPED and RUNNING, under any interleaving of run_single
\* and reset calls, the error message is none.
C27_ErrorOnlyInError ==
    state \in {"STOPPED", "RUNNING"} => error_message = None

----------------------------------------------------------------------------
(* Claims about the Alert Lifecycle Manager                                *)

\* The alerts of a zone, by index in the registry.
ZoneAlerts(z) == {i \in DOMAIN alerts : alerts[i].zone_id = z}

\* A zone has an alert created less than the cooldown ago.
InsideCooldown(z) ==
    \E i \in ZoneAlerts(z) : now - alerts[i].created_at < 300

\* The alerts of a zone created in the trailing hour.
TrailingHour(z) == {i \in ZoneAlerts(z) : alerts[i].created_at > now - 3600}

\* C7: no alert is created for a SAFE classification: such a call returns
\* none, and the registry never holds an alert whose classification is SAFE.
C7_NoSafeAlert ==
    /\ \A i \in DOMAIN alerts : alerts[i].classification # "SAFE"
    /\ (ret.op = "create" /\ ret.cls = "SAFE") => ret.alert = 0

\* C7 witness: a SAFE classification was handed to the alert service for a
\* zone that no gate would have held back, and none came back.
C7_Witness ==
    /\ ret.op = "create"
    /\ ret.cls = "SAFE"
    /\ ret.alert = 0
    /\ zone_last_alert[ret.zone] = None
    /\ alerts # << >>

\* C8: any two alerts of one zone were created at least 300 s apart, and a
\* non-SAFE classification that arrives less than 300 s after the zone's
\* last created alert creates no alert.
C8_Cooldown ==
    /\ [](\A i, j \in DOMAIN alerts :
            (i < j /\ alerts[i].zone_id = alerts[j].zone_id) =>
                alerts[j].created_at - alerts[i].created_at >= 300)
    /\ [][(ret'.op = "create" /\ ret'.cls # "SAFE" /\ InsideCooldown(ret'.zone))
            => (alerts' = alerts /\ ret'.alert = 0)]_vars

\* C8 witness: a non-SAFE classification arrived 60 s after the zone's alert
\* and came back with none.
C8_Witness ==
    /\ ret.op = "create"
    /\ ret.cls # "SAFE"
    /\ ret.alert = 0
    /\ \E i \in ZoneAlerts(ret.zone) : now - alerts[i].created_at = 60

\* C9: a zone never has more than 10 alerts created in the trailing hour; a
\* non-SAFE classification that finds 10 there creates none, and one that
\* finds fewer, outside the cooldown, creates one.
C9_FloodGate ==
    /\ [](\A z \in Zones : Cardinality(TrailingHour(z)) <= 10)
    /\ [][(ret'.op = "create" /\ ret'.cls # "SAFE") =>
            IF Cardinality(TrailingHour(ret'.zone)) >= 10
            THEN alerts' = alerts /\ ret'.alert = 0
            ELSE ~InsideCooldown(ret'.zone) =>
                    (Len(alerts') = Len(alerts) + 1 /\ ret'.alert = Len(alerts'))]_vars

\* C9 witness: a non-SAFE classification outside the cooldown found ten
\* alerts in the zone's trailing hour and came back with none.
C9_Witness ==
    /\ ret.op = "create"
    /\ ret.cls # "SAFE"
    /\ ret.alert = 0
    /\ ~InsideCooldown(ret.zone)
    /\ Cardinality(TrailingHour(ret.zone)) = 10

\* The timeout of each severity, in seconds.
TimeoutOf(sev) ==
    CASE sev = "LOW" -> 1800
      [] sev = "MEDIUM" -> 900
      [] sev = "HIGH" -> 300
      [] sev = "CRITICAL" -> 60

\* An alert is due at the start of a pass.
Due(a) ==
    /\ a.status = "active"
    /\ ~a.acknowledged
    /\ now - a.created_at > TimeoutOf(a.severity)
    /\ a.escalation_level < 4

\* C10: one check_escalations pass raises the level of an alert by exactly
\* one step and sets it ESCALATED if and only if the alert was ACTIVE,
\* unacknowledged, older than the timeout of its severity and below
\* EMERGENCY when the pass began; every other alert is left as it was.
C10_OneStepPerPass ==
    [][ret'.op = "check_escalations" =>
        /\ DOMAIN alerts' = DOMAIN alerts
        /\ \A i \in DOMAIN alerts :
            IF Due(alerts[i])
            THEN /\ alerts'[i].escalation_level = alerts[i].escalation_level + 1
                 /\ alerts'[i].status = "escalated"
                 /\ alerts'[i].escalated_at = Some(now)
            ELSE alerts'[i] = alerts[i]]_vars

\* C10 witness: a pass has just escalated one alert to SUPERVISOR and left
\* a younger ACTIVE alert alone.
C10_Witness ==
    /\ ret.op = "check_escalations"
    /\ \E i, j \in DOMAIN alerts :
        /\ alerts[i].status = "escalated"
        /\ alerts[i].escalation_level = 2
        /\ alerts[i].escalated_at = Some(now)
        /\ alerts[j].status = "active"
        /\ alerts[j].escalation_level = 1

\* The status changes the lifecycle allows.
LifecycleEdges ==
    { <<"active", "acknowledged">>, <<"active", "false_positive">>,
      <<"acknowledged", "resolved">>, <<"false_positive", "resolved">>,
      <<"active", "escalated">> }

\* C11: across acknowledge, resolve and check_escalations calls an alert's
\* status changes only along ACTIVE->ACKNOWLEDGED, ACTIVE->FALSE_POSITIVE,
\* ACKNOWLEDGED->RESOLVED, FALSE_POSITIVE->RESOLVED and ACTIVE->ESCALATED; a
\* RESOLVED alert never changes status again, and an alert is resolved only
\* after it was acknowledged or marked false positive.
C11_LifecycleEdges ==
    [][\A i \in DOMAIN alerts :
        alerts'[i].status # alerts[i].status =>
            <<alerts[i].status, alerts'[i].status>> \in LifecycleEdges]_vars

\* C12: acknowledgement stops escalation: an alert stays acknowledged
\* whatever operation follows, and no check_escalations pass changes the
\* escalation level, the escalation timestamp or the status of an
\* acknowledged alert (false positive or not).
C12_AckStopsEscalation ==
    [][\A i \in DOMAIN alerts :
        alerts[i].acknowledged =>
            /\ alerts'[i].acknowledged
            /\ ret'.op = "check_escalations" =>
                /\ alerts'[i].escalation_level = alerts[i].escalation_level
                /\ alerts'[i].escalated_at = alerts[i].escalated_at
                /\ alerts'[i].status = alerts[i].status]_vars

\* C12 witness: a pass has just run over an acknowledged alert that is older
\* than the timeout of its severity and still at the INITIAL level.
C12_Witness ==
    /\ ret.op = "check_escalations"
    /\ \E i \in DOMAIN alerts :
        /\ alerts[i].acknowledged
        /\ alerts[i].status \in {"acknowledged", "false_positive"}
        /\ now - alerts[i].created_at > TimeoutOf(alerts[i].severity)
        /\ alerts[i].escalation_level = 1
        /\ alerts[i].escalated_at = None

\* The status code the alert router answers with (routers/alert.py: 404 when
\* the service returned no alert).
HttpStatus(r) == IF r.alert = 0 THEN 404 ELSE 200

\* C13: acknowledge and resolve called with an id that is not in the
\* registry return no alert (surfaced as 404) and leave every alert, the
\* zone last-alert timestamps and the hourly counters unchanged.
C13_MissChangesNothing ==
    [][(ret'.op \in {"acknowledge", "resolve"} /\ ret'.id \notin DOMAIN alerts) =>
        /\ ret'.alert = 0
        /\ HttpStatus(ret') = 404
        /\ UNCHANGED <<alerts, zone_last_alert, zone_alert_counts>>]_vars

\* C13 witness: an acknowledge with an unknown id has just returned none
\* while the registry held an ACTIVE alert and its zone's counters.
C13_Witness ==
    /\ ret.op = "acknowledge"
    /\ ret.id \notin DOMAIN alerts
    /\ ret.alert = 0
    /\ \E i \in DOMAIN alerts :
        /\ alerts[i].status = "active"
        /\ zone_alert_counts[alerts[i].zone_id] # << >>

\* A configured range holds a score.
InRange(r, s) == r.min_score <= s /\ s <= r.max_score

\* C14: for every risk score in [0,100] at 0.01 resolution the severity of
\* a new alert is the severity of the configured range that contains the
\* score, LOW when the score lies below every configured range and CRITICAL
\* when it lies above every one; the severity so corresponds to exactly one
\* of LOW 25-49, MEDIUM 50-69, HIGH 70-84, CRITICAL 85-100.
C14_SeverityOfRange ==
    \A i \in DOMAIN alerts :
        LET s == alerts[i].risk_score
            sev == alerts[i].severity
            holding == {k \in DOMAIN SEVERITY_THRESHOLDS :
                            InRange(SEVERITY_THRESHOLDS[k], s)}
        IN  /\ Cardinality(holding) <= 1
            /\ \/ \E k \in holding : sev = SEVERITY_THRESHOLDS[k].severity
               \/ /\ \A k \in DOMAIN SEVERITY_THRESHOLDS :
                        s < SEVERITY_THRESHOLDS[k].min_score
                  /\ sev = "LOW"
               \/ /\ \A k \in DOMAIN SEVERITY_THRESHOLDS :
                        s > SEVERITY_THRESHOLDS[k].max_score
                  /\ sev = "CRITICAL"

----------------------------------------------------------------------------
(* Claims about the Risk Classification Engine, checked under ClassifySpec *)

\* classify returned a response (it did not raise).
Returned == response.classification \in Classifications

\* C15: for all vision and sensor component scores (negative and above 100
\* included), every temporal multiplier and all evidence, the result of
\* classify has 0 <= risk_score <= 100 and 0 <= confidence <= 1.
C15_ScoreAndConfidenceBounds ==
    /\ Returned =>
        /\ 0 <= response.risk_score /\ response.risk_score <= 10000
        /\ 0 <= response.confidence /\ response.confidence <= 100
    /\ request # NoRequest =>
        /\ 0 <= FinalScore(request) /\ FinalScore(request) <= 100 * Point

\* C15 witness: a response for component scores of 150 at night: the raw
\* product is 117, the risk score returned is 100.
C15_Witness ==
    /\ Returned
    /\ request # NoRequest
    /\ request.vision # None /\ request.vision[1].vision_risk_score = 15000
    /\ request.sensor # None /\ request.sensor[1].sensor_risk_score = 15000
    /\ TimeRiskModifier(request.hour) = 13
    /\ response.risk_score = 10000
    /\ response.confidence = 100

\* The tiers in their order.
Tier(cls) ==
    CASE cls = "SAFE" -> 0
      [] cls = "SUSPICIOUS" -> 1
      [] cls = "CONFIRMED_TAMPERING" -> 2

\* Final scores to compare with: every 2.5 points from 0 to 100, and the
\* two thresholds with their predecessors.
FinalSamples ==
    {k * (Point \div 2) * 5 : k \in 0..40}
        \cup {25 * Point - 1, 25 * Point, 60 * Point - 1, 60 * Point}

\* C16: classification is monotonic in the final risk score for fixed
\* evidence: for final scores a <= b and the same override inputs the tier
\* for b is not below the tier for a, in SAFE < SUSPICIOUS <
\* CONFIRMED_TAMPERING.
C16_MonotonicTier ==
    request # NoRequest =>
        LET b == FinalScore(request)
            TierAt(x) ==
                Tier(DetermineClassification(x, request.vision, request.sensor)[1])
        IN  \A a \in FinalSamples :
                /\ a <= b => TierAt(a) <= TierAt(b)
                /\ b <= a => TierAt(b) <= TierAt(a)

\* C16 witness: a SUSPICIOUS response with no override in play, between
\* final scores that classify SAFE and CONFIRMED_TAMPERING.
C16_Witness ==
    /\ request # NoRequest
    /\ response.classification = "SUSPICIOUS"
    /\ ThresholdVerdict(FinalScore(request))[1] = "SUSPICIOUS"
    /\ DetermineClassification(0, request.vision, request.sensor)[1] = "SAFE"
    /\ DetermineClassification(100 * Point, request.vision, request.sensor)[1]
            = "CONFIRMED_TAMPERING"

\* A detection that the vision override rule accepts.
Qualifies(d) ==
    /\ d.class_label \in {"missing_fish_plate", "track_displacement"}
    /\ d.confidence >= 85

\* C17: override rules take precedence over threshold scoring: with a
\* missing_fish_plate or track_displacement detection of confidence >= 0.85,
\* or coordinated sensor evidence of sabotage likelihood >= 0.7, the
\* classification is CONFIRMED_TAMPERING whatever the final score; the
\* vision rule is tried first and the confidence reported is that of the
\* (first such) detection, otherwise the sabotage likelihood.
C17_OverridePrecedence ==
    request # NoRequest =>
        LET dets == IF request.vision # None
                    THEN request.vision[1].detections ELSE << >>
            visionRule == \E i \in DOMAIN dets : Qualifies(dets[i])
            sensorRule == /\ request.sensor # None
                          /\ request.sensor[1].is_coordinated
                          /\ request.sensor[1].sabotage_likelihood >= 70
        IN  /\ visionRule =>
                /\ response.classification = "CONFIRMED_TAMPERING"
                /\ \E i \in DOMAIN dets :
                    /\ Qualifies(dets[i])
                    /\ \A j \in 1..(i - 1) : ~Qualifies(dets[j])
                    /\ response.confidence = dets[i].confidence
            /\ (~visionRule /\ sensorRule) =>
                /\ response.classification = "CONFIRMED_TAMPERING"
                /\ response.confidence = request.sensor[1].sabotage_likelihood

\* C17 witness: a final score of 0, two qualifying detections (0.85, then
\* 0.95) and coordinated sensor evidence of likelihood 1.0: the response is
\* CONFIRMED_TAMPERING with confidence 0.85.
C17_Witness ==
    /\ request # NoRequest
    /\ response.risk_score = 0
    /\ request.vision # None
    /\ Len(request.vision[1].detections) = 2
    /\ request.vision[1].detections[1] =
            [class_label |-> "track_displacement", confidence |-> 85]
    /\ request.vision[1].detections[2] =
            [class_label |-> "missing_fish_plate", confidence |-> 95]
    /\ request.sensor # None
    /\ request.sensor[1].is_coordinated
    /\ request.sensor[1].sabotage_likelihood = 100
    /\ response.classification = "CONFIRMED_TAMPERING"
    /\ response.confidence = 85

\* The scenario of C18 in a response: vision 80, sensor 70, multiplier 1.3.
Scenario18 ==
    /\ Returned
    /\ response.vision_risk_score = 8000
    /\ response.sensor_risk_score = 7000
    /\ response.temporal_modifier = 13

\* No override rule applies to the request in flight.
NoOverride ==
    /\ request.vision # None =>
            \A i \in DOMAIN request.vision[1].detections :
                ~Qualifies(request.vision[1].detections[i])
    /\ request.sensor # None =>
            ~(request.sensor[1].is_coordinated
                /\ request.sensor[1].sabotage_likelihood >= 70)

\* What C18 says of the scores, the tier and the alert; the confidence is
\* left to the two statements below.
EndToEnd18(confidences) ==
    /\ (Scenario18 /\ request # NoRequest /\ NoOverride) =>
        /\ BaseScore(request) = 675000
        /\ FinalScore(request) = 8775000
        /\ response.risk_score = 8775
        /\ response.classification = "CONFIRMED_TAMPERING"
        /\ response.confidence \in confidences
    /\ (Scenario18 /\ request = NoRequest) =>
        /\ Len(alerts) = 1
        /\ alerts[1].zone_id = response.zone_id
        /\ alerts[1].severity = "CRITICAL"

\* C18 as stated: vision 80, sensor 70 and multiplier 1.3 for a zone with no
\* earlier alert give base 67.5, final 87.75, CONFIRMED_TAMPERING with
\* confidence about 0.83 (0.82 to 0.84), and exactly one alert, CRITICAL.
C18_AsStated == EndToEnd18(82..84)

\* C18 amended: the same scenario gives base 67.5, final 87.75,
\* CONFIRMED_TAMPERING with confidence 0.91 (0.7 + (87.75 - 60) / 40 * 0.3
\* = 0.908), and exactly one alert, whose severity is CRITICAL.
C18_EndToEnd == EndToEnd18({91})

\* C18 witness: the handler has returned for the scenario: confidence 0.91,
\* one CRITICAL alert of score 87.75 in the registry.
C18_Witness ==
    /\ Scenario18
    /\ request = NoRequest
    /\ response.classification = "CONFIRMED_TAMPERING"
    /\ response.confidence = 91
    /\ Len(alerts) = 1
    /\ alerts[1].risk_score = 8775
    /\ alerts[1].severity = "CRITICAL"

----------------------------------------------------------------------------
(* Claims about the cycle's side effects                                   *)

\* C19: a Run Controller cycle includes the alert side effects: when a
\* successful run_single whose classification is not SAFE returns, for a
\* zone outside its cooldown window and under its hourly limit, one new
\* alert has been registered for that zone.
C19_CycleRaisesAlert ==
    \A t \in Tasks :
        (/\ pc[t] = "idle"
         /\ result[t].op = "run_single"
         /\ result[t].success
         /\ result[t].note # "SAFE"
         /\ \A z \in Zones : zone_last_alert[z] = None /\ zone_alert_counts[z] = << >>)
            => \E i \in DOMAIN alerts : alerts[i].classification = result[t].note

\* A call of classify returns in this step: to the /classify route, or to
\* the run_single of some task.
RouteClassified == request = NoRequest /\ request' # NoRequest
TaskClassified(t) == pc[t] = "cycle" /\ pc'[t] = "ok_lock"

\* The envelope C20 expects for a classification.
Expected20(cls) ==
    [type |-> IF cls = "SAFE" THEN "ANALYSIS_UPDATE" ELSE "ALERT_NEW",
     classification |-> cls]

\* C20: every completed classify call emits exactly one broadcast, of type
\* ALERT_NEW when the classification is not SAFE and ANALYSIS_UPDATE when it
\* is SAFE; nothing else broadcasts, so the alert created or suppressed
\* afterwards changes nothing of it.
C20_OneBroadcastPerClassify ==
    [][/\ RouteClassified =>
            broadcasts' = Append(broadcasts, Expected20(response'.classification))
       /\ \A t \in Tasks : TaskClassified(t) =>
            broadcasts' = Append(broadcasts, Expected20(result'[t].note))
       /\ broadcasts' # broadcasts =>
            (RouteClassified \/ \E t \in Tasks : TaskClassified(t))]_vars

\* C20 witness: two non-SAFE classifications were served for one zone; both
\* were broadcast as ALERT_NEW, the second alert was held by the cooldown.
C20_Witness ==
    /\ request = NoRequest
    /\ Len(broadcasts) = 2
    /\ broadcasts[1].type = "ALERT_NEW"
    /\ broadcasts[2].type = "ALERT_NEW"
    /\ Len(alerts) = 1
    /\ ret.op = "create"
    /\ ret.alert = 0

----------------------------------------------------------------------------
(* Further claims about the Alert Lifecycle Manager                        *)

\* C28: an alert is escalated at most once in its lifetime: once ESCALATED
\* no operation returns it to ACTIVE, every later check_escalations pass
\* leaves its level unchanged, and no escalation level ever exceeds
\* SUPERVISOR (MANAGER and EMERGENCY are unreachable).
C28_EscalatedOnce ==
    \A i \in DOMAIN alerts :
        /\ alerts[i].escalation_level \in {1, 2}
        /\ alerts[i].escalation_level = 2 <=> alerts[i].escalated_at # None
        /\ alerts[i].escalated_at # None => alerts[i].status # "active"

\* C28 witness: an alert escalated at 300 s is still at SUPERVISOR after a
\* pass at 1801 s.
C28_Witness ==
    /\ ret.op = "check_escalations"
    /\ now = 1801
    /\ \E i \in DOMAIN alerts :
        /\ alerts[i].status = "escalated"
        /\ alerts[i].escalated_at = Some(300)
        /\ alerts[i].escalation_level = 2

\* The order LOW < MEDIUM < HIGH < CRITICAL.
SeverityRank(sev) ==
    CASE sev = "LOW" -> 1
      [] sev = "MEDIUM" -> 2
      [] sev = "HIGH" -> 3
      [] sev = "CRITICAL" -> 4

\* C29: severity is monotone in the risk score: for any two scores a <= b
\* in [0,100] at 0.01 resolution, scores between two configured ranges
\* included, the severity of b is not lower than the severity of a. (Over
\* the hundredths this is the same as: no step of 0.01 lowers the severity,
\* so the new alert's score is compared with the score just below it.)
C29_SeverityMonotone ==
    \A i \in DOMAIN alerts :
        LET b == alerts[i].risk_score
        IN  \A a \in {b - 1} \cap RiskScores :
                SeverityRank(DetermineSeverity(a)) <= SeverityRank(alerts[i].severity)

\* The entries of a counter list, as a set.
Entries(ts) == {ts[k] : k \in DOMAIN ts}

\* A counter list after a call holds what it held before, in the same
\* order, less entries older than an hour.
OnlyExpiredRemoved(old, new) ==
    /\ new = SelectSeq(old, LAMBDA t : t \in Entries(new))
    /\ \A t \in Entries(old) \ Entries(new) : now - t > 3600

\* C30: a create attempt rejected by the SAFE check, the cooldown gate or
\* the flood gate leaves the registry and the zone's last-alert timestamp
\* unchanged and removes nothing but entries older than an hour from the
\* zone's hourly counter (so a suppressed attempt never extends the
\* cooldown window), and an attempt for one zone, rejected or not, never
\* changes another zone's timestamp or counter.
C30_RejectedCreateFrame ==
    [][ret'.op = "create" =>
        /\ ret'.alert = 0 =>
            /\ alerts' = alerts
            /\ zone_last_alert' = zone_last_alert
            /\ OnlyExpiredRemoved(zone_alert_counts[ret'.zone],
                                  zone_alert_counts'[ret'.zone])
        /\ \A z \in Zones \ {ret'.zone} :
            /\ zone_last_alert'[z] = zone_last_alert[z]
            /\ zone_alert_counts'[z] = zone_alert_counts[z]]_vars

\* C30 witness: beside an alert of the other zone, a non-SAFE attempt
\* outside the cooldown was rejected by the flood gate, and the attempted
\* zone's last-alert timestamp is still the instant of its newest alert.
C30_Witness ==
    /\ ret.op = "create"
    /\ ret.cls # "SAFE"
    /\ ret.alert = 0
    /\ Cardinality(TrailingHour(ret.zone)) = 10
    /\ \E i \in ZoneAlerts(ret.zone) :
        /\ zone_last_alert[ret.zone] = Some(alerts[i].created_at)
        /\ now - alerts[i].created_at >= 300
    /\ \E z \in Zones \ {ret.zone} : zone_last_alert[z] # None

----------------------------------------------------------------------------
(* Claims about _determine_classification, checked under ThresholdSpec     *)

\* C26: when no override fires, with T_safe = 25 and T_susp = 60, a final
\* score below 25 is SAFE, a score with 25 <= final < 60 is SUSPICIOUS and a
\* score >= 60 is CONFIRMED_TAMPERING (25 and 60 belong to the higher tier);
\* the confidence lies in [0,1] for SAFE and does not rise with the score,
\* lies in [0.5,0.8] for SUSPICIOUS and in [0.7,1.0] for
\* CONFIRMED_TAMPERING and does not fall as the score rises.
C26_ThresholdTiers ==
    (request # NoRequest /\ NoOverride) =>
        LET s == request.risk_score
            cls == response.classification
            c == response.confidence
            lower == {a \in FinalSamples \cup {s - Point \div 100} :
                        0 <= a /\ a <= s /\ ThresholdVerdict(a)[1] = cls}
        IN  /\ s < 25 * Point => cls = "SAFE"
            /\ (25 * Point <= s /\ s < 60 * Point) => cls = "SUSPICIOUS"
            /\ s >= 60 * Point => cls = "CONFIRMED_TAMPERING"
            /\ cls = "SAFE" =>
                /\ 0 <= c /\ c <= 100
                /\ \A a \in lower : ThresholdVerdict(a)[2] >= c
            /\ cls = "SUSPICIOUS" =>
                /\ 50 <= c /\ c <= 80
                /\ \A a \in lower : ThresholdVerdict(a)[2] <= c
            /\ cls = "CONFIRMED_TAMPERING" =>
                /\ 70 <= c /\ c <= 100
                /\ \A a \in lower : ThresholdVerdict(a)[2] <= c

\* C26 witness: a final score of exactly 25 with a missing fish plate seen
\* at 0.84 and coordinated sensors at 0.69, neither an override, came back
\* SUSPICIOUS with confidence 0.5.
C26_Witness ==
    /\ request # NoRequest
    /\ NoOverride
    /\ request.risk_score = 25 * Point
    /\ request.vision # None
    /\ request.sensor # None
    /\ response.classification = "SUSPICIOUS"
    /\ response.confidence = 50

----------------------------------------------------------------------------
(* Claims about concurrent requests, checked under ConcurrentSpec          *)

\* The creation instants of a zone's alerts of the trailing hour, in the
\* order of the registry.
RECURSIVE CreatedInHour(_, _)
CreatedInHour(z, i) ==
    IF i > Len(alerts) THEN << >>
    ELSE IF alerts[i].zone_id = z /\ alerts[i].created_at > now - 3600
         THEN <<alerts[i].created_at>> \o CreatedInHour(z, i + 1)
         ELSE CreatedInHour(z, i + 1)

\* A handler of /classify finished its request in this step.
Resumed(t) == pc[t] = "classify" /\ pc'[t] = "idle"

\* C25: under any interleaving of concurrent classification requests for
\* one zone the gate checks and the registration of an alert are one atomic
\* step: no two requests both pass the cooldown gate of the zone within one
\* cooldown window, every created alert adds exactly one entry to the
\* zone's hourly counter, and acknowledge, resolve and escalation steps on
\* one alert are never interleaved part-way (no alert is seen with one of
\* the two writes of an acknowledgement, or one of the three writes of an
\* escalation, without the others).
C25_AtomicGateAndRegistration ==
    /\ [](/\ \A i, j \in DOMAIN alerts :
                (i < j /\ alerts[i].zone_id = alerts[j].zone_id) =>
                    alerts[j].created_at - alerts[i].created_at >= 300
          /\ \A z \in Zones :
                SelectSeq(zone_alert_counts[z], LAMBDA t : t > now - 3600)
                    = CreatedInHour(z, 1)
          /\ \A i \in DOMAIN alerts :
                /\ alerts[i].status \in {"acknowledged", "false_positive"}
                        => alerts[i].acknowledged
                /\ alerts[i].acknowledged => alerts[i].status # "active"
                /\ alerts[i].status = "escalated" =>
                        alerts[i].escalation_level = 2
                /\ alerts[i].escalation_level = 2 <=> alerts[i].escalated_at # None)
    /\ [][alerts' # alerts =>
            \/ /\ Len(alerts') = Len(alerts) + 1
               /\ \E t \in Tasks : Resumed(t) /\ result'[t].alert = Len(alerts')
               /\ \A t \in Tasks : pc'[t] = "classify" =>
                    (result'[t] = result[t] /\ pc[t] = "classify")
            \/ /\ Len(alerts') = Len(alerts)
               /\ ret'.op \in {"acknowledge", "resolve", "check_escalations"}
               /\ UNCHANGED <<pc, result, zone_last_alert, zone_alert_counts>>]_vars

\* C25 witness: two handlers awaited classify for one zone at once, both
\* with a verdict that is not SAFE; they resumed at one instant, the first
\* raised the alert and the second, the step just taken, was held back.
C25_Witness ==
    /\ ret.op = "create"
    /\ ret.alert = 0
    /\ \E t, u \in Tasks :
        /\ t # u
        /\ pc[t] = "idle" /\ pc[u] = "idle"
        /\ result[t].op = "classify" /\ result[u].op = "classify"
        /\ result[t].zone_id = result[u].zone_id
        /\ result[t].classification # "SAFE"
        /\ result[u].classification # "SAFE"
        /\ result[u].concurrent
        /\ result[t].alert \in DOMAIN alerts
        /\ alerts[result[t].alert].created_at = now
        /\ result[u].alert = 0

----------------------------------------------------------------------------
(* Claims about the guarded arithmetic, checked under MathSpec             *)

\* The fallback a guarded function returns: the default, tagged.
Fallback(default, code) == ret.value = <<default, 1>> /\ ret.reason = Some(code)

\* The value returned is the fraction n / d and carries no tag.
Exactly(n, d) ==
    /\ ret.reason = None
    /\ ret.value[2] > 0
    /\ ret.value[1] * d = n * ret.value[2]

\* C23: the guarded arithmetic functions always return and tag every
\* fallback: safe_divide returns (default, DENOMINATOR_ZERO) when the
\* denominator is zero and (numerator/denominator, none) otherwise;
\* safe_average and safe_weighted_average return (default, EMPTY_ARRAY) on
\* an empty list; safe_weighted_average returns (default, NO_VALID_VALUES)
\* on non-empty lists of different lengths and (default, ALL_WEIGHTS_ZERO)
\* when the weights of lists of one length sum to zero; safe_normalize
\* returns (default, NORMALIZATION_FALLBACK) on a zero range; safe_clamp(v,
\* lo, hi) with lo <= hi returns v limited to [lo, hi].
C23_GuardedArithmetic ==
    /\ ret.op = "safe_divide" =>
        LET n == ret.args[1]  d == ret.args[2]  def == ret.args[3]
        IN  IF d = 0 THEN Fallback(def, "DENOMINATOR_ZERO") ELSE Exactly(n, d)
    /\ ret.op = "safe_average" =>
        LET values == ret.args[1]  def == ret.args[2]
        IN  IF values = << >> THEN Fallback(def, "EMPTY_ARRAY")
            ELSE Exactly(Sum(values), Len(values))
    /\ ret.op = "safe_weighted_average" =>
        LET values == ret.args[1]  weights == ret.args[2]  def == ret.args[3]
        IN  IF values = << >> \/ weights = << >> THEN Fallback(def, "EMPTY_ARRAY")
            ELSE IF Len(values) # Len(weights) THEN Fallback(def, "NO_VALID_VALUES")
            ELSE IF Sum(weights) = 0 THEN Fallback(def, "ALL_WEIGHTS_ZERO")
            ELSE ret.reason = None
    /\ ret.op = "safe_normalize" =>
        LET lo == ret.args[2]  hi == ret.args[3]  def == ret.args[4]
        IN  IF hi - lo = 0 THEN Fallback(def, "NORMALIZATION_FALLBACK")
            ELSE ret.reason = None
    /\ ret.op = "safe_clamp" =>
        LET v == ret.args[1]  lo == ret.args[2]  hi == ret.args[3]
        IN  lo <= hi =>
                ret.value = <<IF v < lo THEN lo ELSE IF v > hi THEN hi ELSE v, 1>>

\* C23 witness: safe_divide(5, 0, default=-1) returned (-1, DENOMINATOR_ZERO).
C23_Witness ==
    /\ ret.op = "safe_divide"
    /\ ret.args = <<5, 0, -1>>
    /\ ret.value = <<-1, 1>>
    /\ ret.reason = Some("DENOMINATOR_ZERO")

----------------------------------------------------------------------------
(* Claims about the push sink, checked under PushSpec                      *)

\* C21: a delivery failure to a connected push client never makes classify
\* fail or changes its result: when classify has returned from a broadcast
\* in which a send failed, it returned the response it had built, every
\* failing client is out of the connection set, and every other client that
\* was connected when the broadcast began and still is has received the
\* message.
C21_DeliveryFailureContained ==
    \A t \in Tasks :
        LET failing == Connections(loop[t].disconnected) IN
        (pc[t] = "returned" /\ failing # {}) =>
            /\ result[t].op = "classify"
            /\ failing \cap Connections(active_connections) = {}
            /\ \A c \in (loop[t].connected \cap Connections(active_connections))
                            \ failing :
                    c \in received[t]

----------------------------------------------------------------------------
(* Claims about the audit trail, checked under AuditSpec                   *)

\* The number of audit records of one event type.
Records(event_type) ==
    Len(SelectSeq(audit_entries, LAMBDA e : e = event_type))

\* The classifications that have completed and whose handler has not yet
\* gone past the point where the route writes its record.
Unrecorded ==
    (IF request # NoRequest THEN 1 ELSE 0)
        + Cardinality({t \in Tasks : pc[t] \in {"ok_lock", "ok_commit"}})

\* C22: the audit trail has exactly one record per classification and per
\* alert-lifecycle event: every classification that completes, through the
\* classify endpoint or through a Run Controller cycle, and every alert
\* creation, acknowledgement, resolution and escalation appends one record;
\* no classification completes without an audit record.
C22_AuditTrail ==
    /\ [](/\ Records("intent_classification") = Len(broadcasts) - Unrecorded
          /\ Records("alert_created") = Len(alerts)
          /\ Records("alert_escalated") =
                Cardinality({i \in DOMAIN alerts : alerts[i].escalated_at # None}))
    /\ [][/\ (ret'.op = "acknowledge" /\ ret'.alert # 0) =>
                Records("alert_acknowledged")' = Records("alert_acknowledged") + 1
          /\ (ret'.op = "resolve" /\ ret'.alert # 0) =>
                Records("alert_resolved")' = Records("alert_resolved") + 1]_vars

====
